---- MODULE Spec2Model ----
(***************************************************************************)
(* A model of lytra's asyncio helpers: the rate limiters of                *)
(* lytra/asyncio/delaying.py (SimpleRateLimiter over asyncio.Semaphore,    *)
(* EnsembleRateLimiter over a list of limiters), the background task       *)
(* registry of lytra/asyncio/background_tasks.py and the scope adapter of  *)
(* lytra/asyncio/awaitable_context.py, asnyc_to_sync of                    *)
(* lytra/asyncio/callable_conversion.py, and the pure helpers of           *)
(* lytra/lists.py and lytra/typing/unset.py.                               *)
(*                                                                         *)
(* The event loop is single-threaded and cooperative: every action below   *)
(* is one callback of the loop, run from one suspension point to the next. *)
(* The loop may run its ready callbacks in any order and may let any       *)
(* amount of time pass before it runs one.  Time is counted in ticks.      *)
(***************************************************************************)
EXTENDS Integers, Sequences, FiniteSets, TLC

\* Bounds of the model.
NumTasks == 3
MaxCap == 2
MaxPeriod == 2
NumWork == 3
NumWrappers == 2
MaxLen == 2
MaxArity == 2
MaxSize == 4
MaxAwaits == 3

\* A task is one use of a limiter by one coroutine.
Tasks == 1..NumTasks
\* The SimpleRateLimiter objects.
Limiters == {1, 2}
\* What a task awaits: a sequence of one limiter is that SimpleRateLimiter
\* itself, a longer one is the EnsembleRateLimiter over those limiters.
Targets == {<<1>>, <<2>>, <<1, 2>>}
\* How a task uses its limiter: `await lim`, `async with lim:`, or
\* `await lim.acquire()` and, later, `lim.schedule_release()`.
Modes == {"await", "scoped", "manual"}
\* One unit of capacity: what task t takes from limiter l.
Units == Tasks \X Limiters
\* The coroutines a submitter hands to execute_in_background.
Works == 1..NumWork
\* The callables asnyc_to_sync returns.
Wrappers == 1..NumWrappers
\* The thread the scheduler runs on, and any other thread.
Threads == {"loop", "other"}

VARIABLES
    max_tasks,         \* [Limiters -> Nat]: the constructor's max_tasks
    period,            \* [Limiters -> Nat]: the constructor's period
    value,             \* [Limiters -> Int]: semaphore._value
    waiters,           \* [Limiters -> Seq(Tasks)]: semaphore._waiters
    fut,               \* [Tasks -> ...]: the future the task waits on
    must_cancel,       \* [Tasks -> BOOLEAN]: Task._must_cancel
    pc,                \* [Tasks -> ...]: where the task's coroutine stands
    mode,              \* [Tasks -> Modes]
    target,            \* [Tasks -> Targets]
    idx,               \* [Tasks -> Nat]: position of the loop in acquire
    raised,            \* [Tasks -> BOOLEAN]: the scope's body raised
    unit,              \* [Units -> ...]: the unit's state
    age,               \* [Units -> Nat]: ticks since schedule_release
    rel,               \* [Units -> ...]: the unit's _delayed_release task
    rem,               \* [Units -> Nat]: ticks left of its sleep
    BACKGROUND_TASKS,  \* the registry
    acq_log,           \* [Tasks -> Seq(Limiters)]: limiters granted, in order
    sched_log,         \* [Tasks -> Seq(Limiters)]: releases scheduled, in order
    work,              \* [Works -> ...]: the submitted coroutine's task
    outcome,           \* [Works -> ...]: how the task ended
    shared,            \* the list the submitted coroutines append to
    sub_pc,            \* where the submitter stands
    loop_running,      \* the scheduler runs on the loop thread
    wr,                \* [Wrappers -> ...]: what asnyc_to_sync captured
    call,              \* [Wrappers -> ...]: the call of the wrapper
    fn,                \* the function of lists.py or unset.py that is called
    inp,               \* its argument
    unpack_cls,        \* rflatten's unpack_cls
    stage,             \* "start", "returned", "raised" or "consumed"
    ret,               \* what the call returned
    out,               \* what the returned iterables yielded
    limiters,          \* EnsembleRateLimiter.limiters, as the constructor got it
    acquired,          \* [Limiters -> Nat]: acquire() calls the ensemble made
    scheduled,         \* [Limiters -> Nat]: schedule_release() calls it made
    awaits             \* awaits of the ensemble that have completed

lim_vars == <<max_tasks, period, value, waiters, fut, unit, age, rel, rem,
              BACKGROUND_TASKS, acq_log, sched_log>>
task_vars == <<must_cancel, pc, mode, target, idx, raised>>
bg_vars == <<work, outcome, shared, sub_pc>>
sync_vars == <<loop_running, wr, call>>
lib_vars == <<fn, inp, unpack_cls, stage, ret, out>>
ens_vars == <<limiters, acquired, scheduled, awaits>>
vars == <<lim_vars, task_vars, bg_vars, sync_vars, lib_vars, ens_vars>>

Min(S) == CHOOSE x \in S : \A y \in S : x <= y

InSeq(x, s) == \E i \in 1..Len(s) : s[i] = x

RECURSIVE RemoveFirst(_, _)
\* deque.remove(x): the sequence without its first x.
RemoveFirst(s, x) ==
    IF s = <<>> THEN <<>>
    ELSE IF Head(s) = x THEN Tail(s)
    ELSE <<Head(s)>> \o RemoveFirst(Tail(s), x)

-----------------------------------------------------------------------------
(* asyncio.Semaphore, as SimpleRateLimiter uses it.                        *)
(* The steps are those of asyncio/locks.py of CPython 3.11.                *)

\* Locked with the test of the counter off by one.
LockedBelowZero(l, val, wts, f) ==
    \/ val[l] < 0
    \/ \E i \in 1..Len(wts[l]) : f[wts[l][i]] # "cancelled"

\* Semaphore.locked(): no capacity, or a waiter that was not cancelled.
Locked(l, val, wts, f) ==
    \/ val[l] = 0
    \/ \E i \in 1..Len(wts[l]) : f[wts[l][i]] # "cancelled"

\* WakeUpNext that wakes the waiter and leaves the counter as it is.
WakeUpNextKeepsValue(l, val, wts, f) ==
    LET pend == {i \in 1..Len(wts[l]) : f[wts[l][i]] = "pending"}
    IN  IF pend = {}
        THEN [value |-> val, fut |-> f]
        ELSE [value |-> val,
              fut |-> [f EXCEPT ![wts[l][Min(pend)]] = "done"]]

\* Semaphore._wake_up_next(): the first waiter whose future is not done
\* gets the result, and the capacity is taken for it.
WakeUpNext(l, val, wts, f) ==
    LET pend == {i \in 1..Len(wts[l]) : f[wts[l][i]] = "pending"}
    IN  IF pend = {}
        THEN [value |-> val, fut |-> f]
        ELSE [value |-> [val EXCEPT ![l] = @ - 1],
              fut |-> [f EXCEPT ![wts[l][Min(pend)]] = "done"]]

\* SemRelease that gives back two units.
SemReleaseTwo(l, val, wts, f) ==
    WakeUpNext(l, [val EXCEPT ![l] = @ + 2], wts, f)

\* Semaphore.release().
SemRelease(l, val, wts, f) ==
    WakeUpNext(l, [val EXCEPT ![l] = @ + 1], wts, f)

-----------------------------------------------------------------------------
(* The limiters.                                                           *)

RECURSIVE RunAcquireSkipsLocked(_, _, _, _, _, _, _, _)
\* RunAcquire that does not wait for a locked limiter and goes on to the next.
RunAcquireSkipsLocked(t, tgt, j, val, wts, f, un, log) ==
    IF j > Len(tgt)
    THEN [value |-> val, unit |-> un, log |-> log, idx |-> j, blocked |-> FALSE]
    ELSE IF Locked(tgt[j], val, wts, f)
    THEN RunAcquireSkipsLocked(t, tgt, j + 1, val, wts, f, un, log)
    ELSE RunAcquireSkipsLocked(t, tgt, j + 1, [val EXCEPT ![tgt[j]] = @ - 1],
                               wts, f, [un EXCEPT ![<<t, tgt[j]>>] = "ACQUIRED"],
                               Append(log, tgt[j]))

RECURSIVE RunAcquire(_, _, _, _, _, _, _, _)
\* EnsembleRateLimiter.acquire from position j of its loop (for a simple
\* limiter: SimpleRateLimiter.acquire), run until it suspends or returns:
\* each limiter that is not locked is taken on the spot, the first locked
\* one suspends the task.
RunAcquire(t, tgt, j, val, wts, f, un, log) ==
    IF j > Len(tgt)
    THEN [value |-> val, unit |-> un, log |-> log, idx |-> j, blocked |-> FALSE]
    ELSE IF Locked(tgt[j], val, wts, f)
    THEN [value |-> val, unit |-> un, log |-> log, idx |-> j, blocked |-> TRUE]
    ELSE RunAcquire(t, tgt, j + 1, [val EXCEPT ![tgt[j]] = @ - 1], wts, f,
                    [un EXCEPT ![<<t, tgt[j]>>] = "ACQUIRED"],
                    Append(log, tgt[j]))

RECURSIVE ScheduleOrderReversed(_)
\* ScheduleOrder that walks the limiters from the last to the first.
ScheduleOrderReversed(lims) ==
    IF lims = <<>> THEN <<>>
    ELSE Append(ScheduleOrderReversed(Tail(lims)), Head(lims))

\* ScheduleOrder that stops after the first limiter.
ScheduleOrderFirstOnly(lims) ==
    IF lims = <<>> THEN <<>> ELSE <<Head(lims)>>

RECURSIVE ScheduleOrder(_)
\* EnsembleRateLimiter.schedule_release: the limiters in the order in which
\* their schedule_release is called.
ScheduleOrder(lims) ==
    IF lims = <<>> THEN <<>>
    ELSE <<Head(lims)>> \o ScheduleOrder(Tail(lims))


\* execute_in_background: the registry with the new task added.
ExecuteInBackground(reg, task) == reg \cup {task}

\* DiscardDone that drops only the tasks that ended without an exception.
DiscardDoneOnSuccess(reg, task, res) == IF res = "ok" THEN reg \ {task} ELSE reg

\* The task's done callback, BACKGROUND_TASKS.discard: it runs when the
\* task is done, whatever its outcome.
DiscardDone(reg, task, res) == reg \ {task}

\* The task is suspended in semaphore.acquire() at position r.idx.
Suspend(t, tgt, r, wts, f) ==
    /\ value' = r.value
    /\ waiters' = [wts EXCEPT ![tgt[r.idx]] = Append(@, t)]
    /\ fut' = [f EXCEPT ![t] = "pending"]
    /\ unit' = [r.unit EXCEPT ![<<t, tgt[r.idx]>>] = "PENDING"]
    /\ pc' = [pc EXCEPT ![t] = "waiting"]
    /\ idx' = [idx EXCEPT ![t] = r.idx]
    /\ acq_log' = [acq_log EXCEPT ![t] = r.log]
    /\ UNCHANGED <<age, rel, rem, BACKGROUND_TASKS, sched_log>>

\* `await lim.acquire()` returned: the caller holds the capacity and has
\* not called schedule_release yet.
AcquireOnly(t, tgt, r, wts, f) ==
    /\ value' = r.value
    /\ waiters' = wts
    /\ fut' = f
    /\ unit' = r.unit
    /\ pc' = [pc EXCEPT ![t] = "acquired"]
    /\ idx' = [idx EXCEPT ![t] = r.idx]
    /\ acq_log' = [acq_log EXCEPT ![t] = r.log]
    /\ UNCHANGED <<age, rel, rem, BACKGROUND_TASKS, sched_log>>

\* SleepTicks that is one tick short.
SleepTicksShort(l) == period[l] - 1

\* asyncio.sleep(self.period): the ticks _delayed_release sleeps.
SleepTicks(l) == period[l]

\* schedule_release of the task's limiter on the units un: every limiter
\* of ScheduleOrder gets a _delayed_release task, created and registered.
\* The task's first step, which starts its sleep, runs in the loop's next
\* iteration: no tick is counted between create_task and that step.
ScheduleRelease(t, tgt, un) ==
    LET order == ScheduleOrder(tgt)
        mine(u) == u[1] = t /\ InSeq(u[2], order)
    IN  /\ unit' = [u \in Units |-> IF mine(u) THEN "RELEASE_SCHEDULED" ELSE un[u]]
        /\ age' = [u \in Units |-> IF mine(u) THEN 0 ELSE age[u]]
        /\ rel' = [u \in Units |-> IF mine(u) THEN "sleeping" ELSE rel[u]]
        /\ rem' = [u \in Units |-> IF mine(u) THEN SleepTicks(u[2]) ELSE rem[u]]
        /\ BACKGROUND_TASKS' =
               UNION ({BACKGROUND_TASKS} \cup
                      {ExecuteInBackground(BACKGROUND_TASKS, u) : u \in {v \in Units : mine(v)}})
        /\ sched_log' = [sched_log EXCEPT ![t] = @ \o order]

\* IRateLimiter._acquire_and_schedule_release after acquire returned:
\* schedule_release follows in the same step.
AcquireAndScheduleRelease(t, m, tgt, r, wts, f) ==
    /\ value' = r.value
    /\ waiters' = wts
    /\ fut' = f
    /\ ScheduleRelease(t, tgt, r.unit)
    /\ pc' = [pc EXCEPT ![t] = IF m = "scoped" THEN "body" ELSE "done"]
    /\ idx' = [idx EXCEPT ![t] = r.idx]
    /\ acq_log' = [acq_log EXCEPT ![t] = r.log]

\* What the task's coroutine does with the outcome r of RunAcquire.
Proceed(t, m, tgt, r, wts, f) ==
    IF r.blocked THEN Suspend(t, tgt, r, wts, f)
    ELSE IF m = "manual" THEN AcquireOnly(t, tgt, r, wts, f)
    ELSE AcquireAndScheduleRelease(t, m, tgt, r, wts, f)

-----------------------------------------------------------------------------
(* The tasks.                                                              *)

\* Task t starts: its first step runs acquire up to the first suspension.
\* Tasks are interchangeable, so they start in the order of their numbers.
Start(t, tgt, m) ==
    /\ pc[t] = "idle"
    /\ \A s \in Tasks : s < t => pc[s] # "idle"
    /\ mode' = [mode EXCEPT ![t] = m]
    /\ target' = [target EXCEPT ![t] = tgt]
    /\ Proceed(t, m, tgt,
               RunAcquire(t, tgt, 1, value, waiters, fut, unit, <<>>),
               waiters, fut)
    /\ UNCHANGED <<max_tasks, period, must_cancel, raised>>
    /\ UNCHANGED <<bg_vars, sync_vars, lib_vars, ens_vars>>

\* The task wakes up in semaphore.acquire() with the capacity granted:
\* it leaves the deque, wakes the next waiter if capacity is left, and
\* goes on with the rest of acquire.
ResumeGranted(t) ==
    LET l == target[t][idx[t]]
        wts == [waiters EXCEPT ![l] = RemoveFirst(@, t)]
        w == IF value[l] > 0 THEN WakeUpNext(l, value, wts, fut)
             ELSE [value |-> value, fut |-> fut]
        f == [w.fut EXCEPT ![t] = "none"]
    IN  /\ pc[t] = "waiting"
        /\ fut[t] = "done"
        /\ ~must_cancel[t]
        /\ Proceed(t, mode[t], target[t],
                   RunAcquire(t, target[t], idx[t] + 1, w.value, wts, f,
                              [unit EXCEPT ![<<t, l>>] = "ACQUIRED"],
                              Append(acq_log[t], l)),
                   wts, f)
        /\ UNCHANGED <<max_tasks, period, must_cancel, mode, target, raised>>
        /\ UNCHANGED <<bg_vars, sync_vars, lib_vars, ens_vars>>

\* Unwind that gives back what the acquire took before position j.
UnwindRollsBack(t, tgt, j, st) ==
    LET taken(l) == \E i \in 1..(j - 1) : tgt[i] = l
    IN  [value |-> [l \in Limiters |-> IF taken(l) THEN st.value[l] + 1 ELSE st.value[l]],
         fut |-> st.fut,
         unit |-> [u \in Units |-> IF u[1] = t /\ taken(u[2]) THEN "RELEASED"
                                   ELSE st.unit[u]]]

\* What EnsembleRateLimiter.acquire does, when CancelledError leaves its
\* loop at position j, about the limiters it acquired before j: its loop
\* has no handler, so nothing; st is the state as semaphore.acquire left it.
Unwind(t, tgt, j, st) == st

\* The task wakes up in semaphore.acquire() with CancelledError: it leaves
\* the deque, gives back the capacity if its future had been granted, and
\* the error leaves EnsembleRateLimiter.acquire through its loop.
ResumeCancelled(t) ==
    LET l == target[t][idx[t]]
        wts == [waiters EXCEPT ![l] = RemoveFirst(@, t)]
        w == IF fut[t] # "cancelled" THEN SemRelease(l, value, wts, fut)
             ELSE [value |-> value, fut |-> fut]
        st == Unwind(t, target[t], idx[t],
                     [value |-> w.value, fut |-> [w.fut EXCEPT ![t] = "none"],
                      unit |-> [unit EXCEPT ![<<t, l>>] = "CANCELLED"]])
    IN  /\ pc[t] = "waiting"
        /\ fut[t] = "cancelled" \/ (fut[t] = "done" /\ must_cancel[t])
        /\ value' = st.value
        /\ waiters' = wts
        /\ fut' = st.fut
        /\ unit' = st.unit
        /\ pc' = [pc EXCEPT ![t] = "cancelled"]
        /\ must_cancel' = [must_cancel EXCEPT ![t] = FALSE]
        /\ UNCHANGED <<max_tasks, period, mode, target, idx, raised, age, rel,
                       rem, BACKGROUND_TASKS, acq_log, sched_log>>
        /\ UNCHANGED <<bg_vars, sync_vars, lib_vars, ens_vars>>

\* Task.cancel() on a task suspended in acquire: a pending future is
\* cancelled, a future that already has its result stays and the task is
\* marked to get CancelledError at its next step.
Cancel(t) ==
    /\ pc[t] = "waiting"
    /\ fut[t] \in {"pending", "done"}
    /\ ~must_cancel[t]
    /\ IF fut[t] = "pending"
       THEN fut' = [fut EXCEPT ![t] = "cancelled"] /\ UNCHANGED must_cancel
       ELSE must_cancel' = [must_cancel EXCEPT ![t] = TRUE] /\ UNCHANGED fut
    /\ UNCHANGED <<max_tasks, period, value, waiters, unit, age, rel, rem,
                   BACKGROUND_TASKS, acq_log, sched_log, pc, mode, target,
                   idx, raised>>
    /\ UNCHANGED <<bg_vars, sync_vars, lib_vars, ens_vars>>

\* The caller of acquire calls schedule_release.
CallScheduleRelease(t) ==
    /\ pc[t] = "acquired"
    /\ ScheduleRelease(t, target[t], unit)
    /\ pc' = [pc EXCEPT ![t] = IF mode[t] = "scoped" THEN "body" ELSE "done"]
    /\ UNCHANGED <<max_tasks, period, value, waiters, fut, acq_log,
                   must_cancel, mode, target, idx, raised>>
    /\ UNCHANGED <<bg_vars, sync_vars, lib_vars, ens_vars>>

\* __aexit__ that returns a true value.
AexitSuppressesAll == TRUE

\* AwaitableAsContext.__aexit__ returns None: an exception of the body is
\* not suppressed.
AexitSuppresses == FALSE

\* The body of `async with lim:` ends, normally or with an exception, and
\* __aexit__ runs.
ExitScope(t, exc) ==
    /\ pc[t] = "body"
    /\ raised' = [raised EXCEPT ![t] = exc]
    /\ pc' = [pc EXCEPT ![t] = IF exc /\ ~AexitSuppresses THEN "failed" ELSE "done"]
    /\ UNCHANGED <<lim_vars, must_cancel, mode, target, idx>>
    /\ UNCHANGED <<bg_vars, sync_vars, lib_vars, ens_vars>>

-----------------------------------------------------------------------------
(* The _delayed_release tasks and the clock.                               *)


\* SleepOver that does not look at the timer.
SleepOverAtOnce(u) == TRUE

\* The sleep of task u is over.
SleepOver(u) == rem[u] = 0

\* _delayed_release after its sleep: semaphore.release(), and the task ends.
BgRelease(u) ==
    LET w == SemRelease(u[2], value, waiters, fut)
    IN  /\ rel[u] = "sleeping"
        /\ SleepOver(u)
        /\ value' = w.value
        /\ fut' = w.fut
        /\ rel' = [rel EXCEPT ![u] = "done"]
        /\ unit' = [unit EXCEPT ![u] = "RELEASED"]
        /\ UNCHANGED <<max_tasks, period, waiters, age, rem, BACKGROUND_TASKS,
                       acq_log, sched_log, task_vars>>
        /\ UNCHANGED <<bg_vars, sync_vars, lib_vars, ens_vars>>

\* The loop runs the done callback of a finished task.
DoneCallback(u) ==
    /\ rel[u] = "done"
    /\ rel' = [rel EXCEPT ![u] = "removed"]
    /\ BACKGROUND_TASKS' = DiscardDone(BACKGROUND_TASKS, u, "ok")
    /\ UNCHANGED <<max_tasks, period, value, waiters, fut, unit, age, rem,
                   acq_log, sched_log, task_vars>>
    /\ UNCHANGED <<bg_vars, sync_vars, lib_vars, ens_vars>>

\* One tick of the clock: every sleep has one tick less to go, and every
\* unit whose release is scheduled is one tick older.
Tick ==
    /\ \E u \in Units : \/ rel[u] = "sleeping" /\ rem[u] > 0
                        \/ unit[u] = "RELEASE_SCHEDULED" /\ age[u] < MaxPeriod
    /\ rem' = [u \in Units |-> IF rel[u] = "sleeping" /\ rem[u] > 0
                               THEN rem[u] - 1 ELSE rem[u]]
    /\ age' = [u \in Units |-> IF unit[u] = "RELEASE_SCHEDULED" /\ age[u] < MaxPeriod
                               THEN age[u] + 1 ELSE age[u]]
    /\ UNCHANGED <<max_tasks, period, value, waiters, fut, unit, rel,
                   BACKGROUND_TASKS, acq_log, sched_log, task_vars>>
    /\ UNCHANGED <<bg_vars, sync_vars, lib_vars, ens_vars>>

-----------------------------------------------------------------------------
(* execute_in_background with any coroutine: a submitter hands coroutines  *)
(* to it and goes on; each appends its number to a shared list, or fails.  *)

\* The registry's entry for submitted coroutine w.
WorkTask(w) == <<w, 0>>

\* RaisedInSubmitter that hands a task's exception to the submitter.
RaisedInSubmitterOnFailure(res) == res = "failed"

\* What the submitter gets of the outcome of a task it submitted: the Task
\* object keeps the exception, and execute_in_background returns None, so
\* nothing is raised in the submitter.
RaisedInSubmitter(res) == FALSE

\* The submitter calls execute_in_background(work w): the task is created
\* and registered, and the call returns.
Submit(w) ==
    /\ sub_pc = "running"
    /\ work[w] = "none"
    /\ \A v \in Works : v < w => work[v] # "none"
    /\ work' = [work EXCEPT ![w] = "created"]
    /\ BACKGROUND_TASKS' = ExecuteInBackground(BACKGROUND_TASKS, WorkTask(w))
    /\ UNCHANGED <<max_tasks, period, value, waiters, fut, unit, age, rel, rem,
                   acq_log, sched_log, task_vars, outcome, shared, sub_pc,
                   sync_vars, lib_vars, ens_vars>>

\* The submitter's coroutine ends: it awaits none of its tasks.
SubmitterEnds ==
    /\ sub_pc = "running"
    /\ sub_pc' = "finished"
    /\ UNCHANGED <<lim_vars, task_vars, work, outcome, shared, sync_vars, lib_vars, ens_vars>>

\* The first step of the task of work w, up to its first suspension.
WorkStart(w) ==
    /\ work[w] = "created"
    /\ work' = [work EXCEPT ![w] = "running"]
    /\ UNCHANGED <<lim_vars, task_vars, outcome, shared, sub_pc, sync_vars, lib_vars, ens_vars>>

\* The task of work w ends: it has appended to the shared list and returns,
\* or it raises.  The loop schedules its done callbacks.
WorkFinish(w, res) ==
    /\ work[w] = "running"
    /\ work' = [work EXCEPT ![w] = "done"]
    /\ outcome' = [outcome EXCEPT ![w] = res]
    /\ shared' = IF res = "ok" THEN Append(shared, w) ELSE shared
    /\ sub_pc' = IF RaisedInSubmitter(res) THEN "failed" ELSE sub_pc
    /\ UNCHANGED <<lim_vars, task_vars, sync_vars, lib_vars, ens_vars>>

\* The loop runs the done callback of the task of work w.
WorkDoneCallback(w) ==
    /\ work[w] = "done"
    /\ work' = [work EXCEPT ![w] = "removed"]
    /\ BACKGROUND_TASKS' = DiscardDone(BACKGROUND_TASKS, WorkTask(w), outcome[w])
    /\ UNCHANGED <<max_tasks, period, value, waiters, fut, unit, age, rel, rem,
                   acq_log, sched_log, task_vars, outcome, shared, sub_pc,
                   sync_vars, lib_vars, ens_vars>>

-----------------------------------------------------------------------------
(* asnyc_to_sync.  The scheduler runs on the loop thread; a wrapper is     *)
(* made and called on the loop thread or on another thread.                *)

\* control_flow.get_running_loop() on thread th: the loop running on that
\* thread, or None.
GetRunningLoop(th) ==
    IF th = "loop" /\ loop_running THEN "loop" ELSE "None"

\* The loop thread is blocked in future.result().
LoopThreadBlocked ==
    \E k \in Wrappers : call[k].st = "blocked" /\ call[k].thread = "loop"

\* Thread th runs code: the loop thread runs code of a coroutine while the
\* scheduler runs, and code before the scheduler starts.
CanRun(th) == th = "loop" => ~LoopThreadBlocked

\* asyncio.run(...) on the loop thread.
StartLoop ==
    /\ ~loop_running
    /\ ~LoopThreadBlocked
    /\ loop_running' = TRUE
    /\ UNCHANGED <<lim_vars, task_vars, bg_vars, lib_vars, ens_vars, wr, call>>

\* asnyc_to_sync(c, loop=arg) on thread th: without a loop argument the
\* wrapper captures the loop running on th at this moment, if any.
MakeWrapper(k, th, arg) ==
    /\ ~wr[k].made
    /\ \A j \in Wrappers : j < k => wr[j].made
    /\ CanRun(th)
    /\ wr' = [wr EXCEPT ![k] =
                [made |-> TRUE,
                 noarg |-> arg = "None",
                 loop |-> IF arg = "None" THEN GetRunningLoop(th) ELSE arg]]
    /\ UNCHANGED <<lim_vars, task_vars, bg_vars, lib_vars, ens_vars, loop_running, call>>

\* sync_c() of wrapper k on thread th.  With no loop captured it is
\* asyncio.run(c()), which raises RuntimeError when a loop runs on th and
\* otherwise runs c to its end on a loop of its own.  With a loop captured it
\* is run_coroutine_threadsafe(c(), loop) and future.result(), which blocks
\* th until that loop has run c.
SyncCall(k, th) ==
    /\ wr[k].made
    /\ call[k].st = "idle"
    /\ CanRun(th)
    /\ call' = [call EXCEPT ![k] =
                  [thread |-> th,
                   inloop |-> GetRunningLoop(th) # "None",
                   st |-> IF wr[k].loop = "None"
                          THEN IF GetRunningLoop(th) # "None"
                               THEN "error" ELSE "result"
                          ELSE "blocked"]]
    /\ UNCHANGED <<lim_vars, task_vars, bg_vars, lib_vars, ens_vars, loop_running, wr>>

\* The scheduler runs the coroutine of call k and sets the future's result:
\* the loop must be running, and its thread free to run callbacks.
LoopRuns(k) ==
    /\ call[k].st = "blocked"
    /\ loop_running
    /\ ~LoopThreadBlocked
    /\ call' = [call EXCEPT ![k].st = "result"]
    /\ UNCHANGED <<lim_vars, task_vars, bg_vars, lib_vars, ens_vars, loop_running, wr>>

-----------------------------------------------------------------------------
(* lytra/lists.py and lytra/typing/unset.py.  A call is made with an       *)
(* argument, it returns or raises, and what it returned is consumed after  *)
(* the call: a list is read, a generator is run to its end.                *)

\* The values in the tuples and lists, and Python's None.
Vals == {"a", "b"}
None == "None"

\* The sequences over S of length at most n.
SeqsUpTo(S, n) == UNION {[1..k -> S] : k \in 0..n}

\* The arguments of the unzip functions: lists of tuples.
TupleLists == SeqsUpTo(SeqsUpTo(Vals, MaxArity), MaxLen)

\* The arguments of flatten: lists whose entries are None or a list.
Entry(isnone, items) == [none |-> isnone, items |-> items]
TwoLevelLists ==
    SeqsUpTo({Entry(TRUE, <<>>)} \cup {Entry(FALSE, q) : q \in SeqsUpTo(Vals, MaxLen)},
             MaxLen)

\* The items of the arguments of rflatten: a number, or a list or a tuple
\* of items.
Classes == {"list", "tuple"}
Leaf(n) == [cls |-> "int", v |-> n, items |-> <<>>]
Box(c, q) == [cls |-> c, v |-> 0, items |-> q]

RECURSIVE Trees(_)
RECURSIVE Forests(_)
\* The items with n nodes.
Trees(n) ==
    IF n = 1 THEN {Leaf(1), Leaf(2)} \cup {Box(c, <<>>) : c \in Classes}
    ELSE {Box(c, q) : c \in Classes, q \in Forests(n - 1)}
\* The sequences of items with m nodes in all.
Forests(m) ==
    IF m = 0 THEN {<<>>}
    ELSE UNION {{<<x>> \o q : x \in Trees(k), q \in Forests(m - k)} : k \in 1..m}

\* The arguments of rflatten.
NestedLists == UNION {Forests(m) : m \in 0..MaxSize}

\* The objects is_unset is called with: the sentinel UNSET, its class, a
\* second instance of the class, None and some other values.
Objects == {"UNSET", "Unset", "Unset()", "None", "False", "0"}

\* What a call gives: a value, or an exception.
Returns(x) == [exc |-> "", value |-> x]
Raises(e) == [exc |-> e, value |-> <<>>]

\* first(itr): next(iter(itr)).
First(itr) == IF itr = <<>> THEN Raises("StopIteration") ELSE Returns(Head(itr))

\* UnzipArity that takes an empty input for tuples of length 0.
UnzipArityOfEmptyIsZero(itr) ==
    IF itr = <<>> THEN Returns(0) ELSE Returns(Len(Head(itr)))

\* The head of the four unzip functions: k = len(first(itr)), and
\* StopIteration is turned into ValueError.
UnzipArity(itr) ==
    LET f == First(itr)
    IN  IF f.exc = "StopIteration" THEN Raises("ValueError")
        ELSE Returns(Len(f.value))

\* elem[i] for elem in itr, and with safe: elem[i] if len(elem) > i else
\* None.  Position i counts from 1.
Column(itr, i, safe) ==
    IF ~safe /\ \E e \in 1..Len(itr) : Len(itr[e]) < i
    THEN Raises("IndexError")
    ELSE Returns([e \in 1..Len(itr) |->
                     IF Len(itr[e]) >= i THEN itr[e][i] ELSE None])

\* A tuple of results, or the first exception among them.
Gather(cols) ==
    IF \E i \in 1..Len(cols) : cols[i].exc # ""
    THEN Raises(cols[CHOOSE i \in 1..Len(cols) :
                       /\ cols[i].exc # ""
                       /\ \A j \in 1..(i - 1) : cols[j].exc = ""].exc)
    ELSE Returns([i \in 1..Len(cols) |-> cols[i].value])

\* unzipl and safe_unzipl: tuple([... for elem in itr] for i in range(k)).
\* Each list is built when the outer generator yields it, with the i of
\* that moment.
UnzipLists(itr, safe) ==
    LET a == UnzipArity(itr)
    IN  IF a.exc # "" THEN a
        ELSE Gather([i \in 1..a.value |-> Column(itr, i, safe)])

\* The value the loop variable i of `for i in range(k)` has once the loop
\* has run to its end, as a position from 1: the last of range(k).
LoopVarAfter(k) == k

\* unzip and safe_unzip: tuple((... for elem in itr) for i in range(k)).
\* tuple() runs the outer generator to its end and collects k inner
\* generators.  An inner generator holds itr; elem[i] is not evaluated
\* yet, and its i is the variable of the outer generator, which all the
\* inner generators share.
UnzipGenerators(itr, safe) ==
    LET a == UnzipArity(itr)
    IN  IF a.exc # "" THEN a
        ELSE Returns([gens |-> [j \in 1..a.value |-> [src |-> itr, safe |-> safe]],
                      i |-> LoopVarAfter(a.value)])

\* Running the inner generators after the call returned: each evaluates
\* elem[i] with the value i has now.
RunGenerators(r) ==
    Gather([j \in 1..Len(r.gens) |-> Column(r.gens[j].src, r.i, r.gens[j].safe)])

\* Flatten that ends at the first None.
RECURSIVE FlattenStopsAtNone(_)
FlattenStopsAtNone(itr) ==
    IF itr = <<>> \/ Head(itr).none THEN <<>>
    ELSE Head(itr).items \o FlattenStopsAtNone(Tail(itr))

\* flatten: elem for subitr in itr if subitr is not None for elem in subitr.
RECURSIVE Flatten(_)
Flatten(itr) ==
    IF itr = <<>> THEN <<>>
    ELSE (IF Head(itr).none THEN <<>> ELSE Head(itr).items) \o Flatten(Tail(itr))

\* IsInstance that holds of every iterable.
IsInstanceOfAnyIterable(item, cls) == item.cls \in Classes

\* isinstance(item, unpack_cls).
IsInstance(item, cls) == item.cls = cls

\* rflatten, run to its end.
RECURSIVE RFlatten(_, _)
RFlatten(itr, cls) ==
    IF itr = <<>> THEN <<>>
    ELSE (IF IsInstance(Head(itr), cls) THEN RFlatten(Head(itr).items, cls)
          ELSE <<Head(itr)>>) \o RFlatten(Tail(itr), cls)

\* is_unset: obj is Unset, the identity test with the class.
IsUnset(obj) == obj = "Unset"

\* The functions that return generators, and those that return lists.
Lazy == {"unzip", "safe_unzip", "flatten", "rflatten"}
Unzips == {"unzip", "safe_unzip", "unzipl", "safe_unzipl"}

\* The call fn(inp).  A generator function and a generator expression over
\* a list run nothing of their body at the call.
CallResult ==
    CASE fn = "unzip" -> UnzipGenerators(inp, FALSE)
      [] fn = "safe_unzip" -> UnzipGenerators(inp, TRUE)
      [] fn = "unzipl" -> UnzipLists(inp, FALSE)
      [] fn = "safe_unzipl" -> UnzipLists(inp, TRUE)
      [] fn = "flatten" -> Returns([src |-> inp])
      [] fn = "rflatten" -> Returns([src |-> inp, cls |-> unpack_cls])
      [] fn = "is_unset" -> Returns(IsUnset(inp))

\* What the caller reads from the returned value after the call.
Consumed ==
    CASE fn \in {"unzip", "safe_unzip"} -> RunGenerators(ret.value)
      [] fn \in {"unzipl", "safe_unzipl"} -> ret
      [] fn = "flatten" -> Returns(Flatten(ret.value.src))
      [] fn = "rflatten" -> Returns(RFlatten(ret.value.src, ret.value.cls))

LibCall ==
    /\ fn # "none"
    /\ stage = "start"
    /\ ret' = CallResult
    /\ stage' = IF CallResult.exc # "" THEN "raised" ELSE "returned"
    /\ UNCHANGED <<lim_vars, task_vars, bg_vars, sync_vars, ens_vars,
                   fn, inp, unpack_cls, out>>

LibConsume ==
    /\ fn \in Lazy \cup Unzips
    /\ stage = "returned"
    /\ out' = Consumed
    /\ stage' = "consumed"
    /\ UNCHANGED <<lim_vars, task_vars, bg_vars, sync_vars, ens_vars,
                   fn, inp, unpack_cls, ret>>

-----------------------------------------------------------------------------
(* EnsembleRateLimiter over any iterable.  The constructor stores its      *)
(* argument as it is, and acquire and schedule_release each run            *)
(* `for limiter in self.limiters`.  The constituents here are limiters     *)
(* that count the calls they get and never suspend the caller.             *)

\* The iterables that give a new iterator for every loop, and those that
\* are their own iterator.
Reiterable == {"list", "tuple"}
SinglePass == {"iterator", "generator"}

\* What one `for limiter in lims` loop gets: all the items of a list, the
\* items a single-pass iterator has not given yet.
LoopItems(lims) ==
    IF lims.kind \in Reiterable THEN lims.items
    ELSE SubSeq(lims.items, lims.pos + 1, Len(lims.items))

\* The iterable after the loop has run to its end.
AfterLoop(lims) ==
    IF lims.kind \in Reiterable THEN lims
    ELSE [lims EXCEPT !.pos = Len(lims.items)]

\* The number of times l is in q.
Count(l, q) == Cardinality({i \in 1..Len(q) : q[i] = l})

\* `await ensemble`: _acquire_and_schedule_release runs acquire, one loop
\* over self.limiters, and then schedule_release, another loop over it.
EnsAwait ==
    LET afterAcquire == AfterLoop(limiters)
    IN  /\ awaits < MaxAwaits
        /\ acquired' = [l \in Limiters |-> acquired[l] + Count(l, LoopItems(limiters))]
        /\ scheduled' = [l \in Limiters |-> scheduled[l] + Count(l, LoopItems(afterAcquire))]
        /\ limiters' = AfterLoop(afterAcquire)
        /\ awaits' = awaits + 1
        /\ UNCHANGED <<lim_vars, task_vars, bg_vars, sync_vars, lib_vars>>

-----------------------------------------------------------------------------

\* Nothing is submitted and no wrapper is made.
Quiet ==
    /\ work = [w \in Works |-> "none"]
    /\ outcome = [w \in Works |-> "none"]
    /\ shared = <<>>
    /\ sub_pc = "running"
    /\ loop_running = FALSE
    /\ wr = [k \in Wrappers |-> [made |-> FALSE, noarg |-> TRUE, loop |-> "None"]]
    /\ call = [k \in Wrappers |-> [thread |-> "loop", inloop |-> FALSE, st |-> "idle"]]

\* No function of lists.py or unset.py is called.
NoCall ==
    /\ fn = "none"
    /\ inp = <<>>
    /\ unpack_cls = "list"
    /\ stage = "start"
    /\ ret = <<>>
    /\ out = <<>>

\* No ensemble is awaited through its own iteration of limiters.
NoEnsemble ==
    /\ limiters = [kind |-> "list", items |-> <<>>, pos |-> 0]
    /\ acquired = [l \in Limiters |-> 0]
    /\ scheduled = [l \in Limiters |-> 0]
    /\ awaits = 0

\* The state after the limiters are constructed and before any task runs.
Fresh ==
    /\ value = max_tasks
    /\ waiters = [l \in Limiters |-> <<>>]
    /\ fut = [t \in Tasks |-> "none"]
    /\ must_cancel = [t \in Tasks |-> FALSE]
    /\ pc = [t \in Tasks |-> "idle"]
    /\ mode = [t \in Tasks |-> "await"]
    /\ target = [t \in Tasks |-> <<>>]
    /\ idx = [t \in Tasks |-> 0]
    /\ raised = [t \in Tasks |-> FALSE]
    /\ unit = [u \in Units |-> "NONE"]
    /\ age = [u \in Units |-> 0]
    /\ rel = [u \in Units |-> "none"]
    /\ rem = [u \in Units |-> 0]
    /\ BACKGROUND_TASKS = {}
    /\ acq_log = [t \in Tasks |-> <<>>]
    /\ sched_log = [t \in Tasks |-> <<>>]
    /\ Quiet

\* What the loop does with the tasks that have started, and Task.cancel().
Run ==
    \/ \E t \in Tasks : ResumeGranted(t)
    \/ \E t \in Tasks : ResumeCancelled(t)
    \/ \E t \in Tasks : Cancel(t)
    \/ \E u \in Units : BgRelease(u)
    \/ \E u \in Units : DoneCallback(u)
    \/ Tick

\* Limiter 1 is the coarse one (the longest period), limiter 2 the fine one.
Periods == [l \in Limiters |-> IF l = 1 THEN MaxPeriod ELSE 1]

\* Limiter 1 has any capacity, limiter 2 has capacity 1.
InitLimiters ==
    /\ max_tasks \in {[l \in Limiters |-> IF l = 1 THEN n ELSE 1] : n \in 1..MaxCap}
    /\ period = Periods
    /\ Fresh
    /\ NoCall
    /\ NoEnsemble

\* Every task awaits limiter 1, or acquires it and schedules the release
\* later.
Init == InitLimiters

Next ==
    \/ \E t \in Tasks, m \in {"await", "manual"} : Start(t, <<1>>, m)
    \/ \E t \in Tasks : CallScheduleRelease(t)
    \/ Run

Spec == Init /\ [][Next]_vars

\* Every task awaits limiter 1: the combined entry point only.
NextAwait ==
    \/ \E t \in Tasks : Start(t, <<1>>, "await")
    \/ Run

SpecAwait == InitLimiters /\ [][NextAwait]_vars

\* Every task uses limiter 1 as a scope, `async with lim:`.
NextScope ==
    \/ \E t \in Tasks : Start(t, <<1>>, "scoped")
    \/ \E t \in Tasks, exc \in BOOLEAN : ExitScope(t, exc)
    \/ Run

SpecScope == InitLimiters /\ [][NextScope]_vars

\* The tasks of the ensemble scenario: one fewer, each holds two units.
EnsTasks == 1..(NumTasks - 1)
\* The EnsembleRateLimiter over limiters 1 and 2, and limiter 2 on its own.
EnsTargets == {<<1, 2>>, <<2>>}

NextEns ==
    \/ \E t \in EnsTasks, tgt \in EnsTargets, m \in {"await", "manual"} : Start(t, tgt, m)
    \/ \E t \in Tasks : CallScheduleRelease(t)
    \/ Run

SpecEns == InitLimiters /\ [][NextEns]_vars

\* The limiters play no part in the registry and the wrappers: one
\* configuration of them is enough.
InitIdleLimiters == InitLimiters /\ max_tasks[1] = 1

\* A submitter and the coroutines it runs in the background.  The loop
\* runs every callback that is ready, and a submitted coroutine ends.
NextBg ==
    \/ \E w \in Works : Submit(w)
    \/ SubmitterEnds
    \/ \E w \in Works : WorkStart(w)
    \/ \E w \in Works, res \in {"ok", "failed"} : WorkFinish(w, res)
    \/ \E w \in Works : WorkDoneCallback(w)

SpecBg ==
    /\ InitIdleLimiters
    /\ [][NextBg]_vars
    /\ \A w \in Works :
        /\ WF_vars(WorkStart(w))
        /\ WF_vars(\E res \in {"ok", "failed"} : WorkFinish(w, res))
        /\ WF_vars(WorkDoneCallback(w))

\* Wrappers of asnyc_to_sync, made and called before and after the
\* scheduler starts, on its thread and on another.
NextSync ==
    \/ StartLoop
    \/ \E k \in Wrappers, th \in Threads, arg \in {"None", "loop"} : MakeWrapper(k, th, arg)
    \/ \E k \in Wrappers, th \in Threads : SyncCall(k, th)
    \/ \E k \in Wrappers : LoopRuns(k)

SpecSync == InitIdleLimiters /\ [][NextSync]_vars

\* Tasks that await limiter 1, limiter 2 or the ensemble over both, so
\* that schedule_release follows every acquire.  No task is cancelled.  The
\* loop runs every callback that is ready and every timer that is due, and
\* time passes.
NextLive ==
    \/ \E t \in EnsTasks, tgt \in Targets : Start(t, tgt, "await")
    \/ \E t \in Tasks : ResumeGranted(t)
    \/ \E u \in Units : BgRelease(u)
    \/ \E u \in Units : DoneCallback(u)
    \/ Tick

SpecLive ==
    /\ InitLimiters
    /\ [][NextLive]_vars
    /\ WF_vars(Tick)
    /\ \A t \in Tasks : WF_vars(ResumeGranted(t))
    /\ \A u \in Units : WF_vars(BgRelease(u))

\* Limiters of capacity 1 that no task uses.
IdleLimiters ==
    /\ max_tasks = [l \in Limiters |-> 1]
    /\ period = Periods
    /\ Fresh

\* One call of one function of lists.py or unset.py, with any argument.
InitLib ==
    /\ IdleLimiters
    /\ NoEnsemble
    /\ stage = "start"
    /\ ret = <<>>
    /\ out = <<>>
    /\ \/ fn \in Unzips /\ inp \in TupleLists /\ unpack_cls = "list"
       \/ fn = "flatten" /\ inp \in TwoLevelLists /\ unpack_cls = "list"
       \/ fn = "rflatten" /\ inp \in NestedLists /\ unpack_cls \in Classes
       \/ fn = "is_unset" /\ inp \in Objects /\ unpack_cls = "list"

NextLib == LibCall \/ LibConsume

SpecLib == InitLib /\ [][NextLib]_vars

\* An ensemble built from a list, a tuple, an iterator or a generator of
\* limiters, awaited again and again.
InitEnsAwait ==
    /\ IdleLimiters
    /\ NoCall
    /\ limiters \in {[kind |-> k, items |-> q, pos |-> 0] :
                       k \in Reiterable \cup SinglePass, q \in SeqsUpTo(Limiters, MaxLen)}
    /\ acquired = [l \in Limiters |-> 0]
    /\ scheduled = [l \in Limiters |-> 0]
    /\ awaits = 0

NextEnsAwait == EnsAwait

SpecEnsAwait == InitEnsAwait /\ [][NextEnsAwait]_vars

-----------------------------------------------------------------------------
(* Properties.                                                             *)

\* The tasks whose acquire of limiter l has returned.
Granted(l) ==
    {t \in Tasks : unit[<<t, l>>] \in {"ACQUIRED", "RELEASE_SCHEDULED", "RELEASED"}}

\* The tasks that have called acquire of limiter l.
Attempted(l) == {t \in Tasks : unit[<<t, l>>] # "NONE"}

\* The tasks whose unit of limiter l the delayed release has returned.
Released(l) == {t \in Tasks : unit[<<t, l>>] = "RELEASED"}

\* The units of limiter l that are outstanding: granted, to a task whose
\* acquire has returned or to a waiter that has not run yet, and not
\* returned by the delayed release.
Held(l) ==
    Cardinality({t \in Tasks :
        \/ unit[<<t, l>>] \in {"ACQUIRED", "RELEASE_SCHEDULED"}
        \/ unit[<<t, l>>] = "PENDING" /\ fut[t] = "done"})

IsPrefix(s, q) == Len(s) <= Len(q) /\ \A i \in 1..Len(s) : s[i] = q[i]

\* C1: at most max_tasks acquisitions of a SimpleRateLimiter are
\* outstanding in any reachable state.
C1_OutstandingAtMostMaxTasks ==
    \A l \in Limiters : Held(l) <= max_tasks[l]

\* The limiter is full and a further task waits for it.
C1_Witness ==
    /\ Held(1) = max_tasks[1]
    /\ \E t \in Tasks : unit[<<t, 1>>] = "PENDING" /\ fut[t] = "pending"

\* C2: a unit is returned by its delayed release no earlier than period
\* ticks after schedule_release, its release is due once period ticks have
\* passed, and nothing else returns capacity: what the semaphore has free is
\* max_tasks less the outstanding units.
C2_CapacityHeldForPeriod ==
    /\ \A u \in Units : unit[u] = "RELEASED" => age[u] >= period[u[2]]
    /\ \A u \in Units :
           unit[u] = "RELEASE_SCHEDULED" /\ age[u] >= period[u[2]]
               => rel[u] = "sleeping" /\ SleepOver(u)
    /\ \A l \in Limiters : value[l] = max_tasks[l] - Held(l)

\* A unit was returned after its period and went to a task that waited.
C2_Witness ==
    \E t1, t2 \in Tasks :
        /\ unit[<<t1, 1>>] = "RELEASED"
        /\ age[<<t1, 1>>] = period[1]
        /\ unit[<<t2, 1>>] = "PENDING"
        /\ fut[t2] = "done"

\* C3: as long as no delayed release of a limiter has fired, the acquires
\* that have returned are the first max_tasks of those started: of N+1
\* started, exactly N.
C3_OnlyMaxTasksBeforeRelease ==
    \A l \in Limiters :
        Released(l) = {} =>
            Cardinality(Granted(l)) =
                IF Cardinality(Attempted(l)) <= max_tasks[l]
                THEN Cardinality(Attempted(l)) ELSE max_tasks[l]

\* N+1 tasks have started to acquire, N have it, none was released.
C3_Witness ==
    /\ Released(1) = {}
    /\ Cardinality(Attempted(1)) = max_tasks[1] + 1
    /\ Cardinality(Granted(1)) = max_tasks[1]
    /\ \E t \in Tasks : unit[<<t, 1>>] = "PENDING" /\ fut[t] = "pending"

\* C4: an ensemble acquires its limiters one after the other in the listed
\* order: the acquire of a limiter starts only when every limiter listed
\* before it has granted, and the ensemble's acquire has returned only when
\* all have granted.
C4_EnsembleAcquiresInOrder ==
    \A t \in Tasks :
        /\ IsPrefix(acq_log[t], target[t])
        /\ \A j \in 1..Len(target[t]) :
               unit[<<t, target[t][j]>>] # "NONE" =>
                   \A i \in 1..(j - 1) : t \in Granted(target[t][i])
        /\ pc[t] \in {"acquired", "done"} =>
               /\ acq_log[t] = target[t]
               /\ \A j \in 1..Len(target[t]) : t \in Granted(target[t][j])

\* One ensemble acquire has returned while another waits for the second
\* limiter, holding the first.
C4_Witness ==
    \E t1, t2 \in Tasks :
        /\ target[t1] = <<1, 2>> /\ pc[t1] = "acquired"
        /\ target[t2] = <<1, 2>> /\ pc[t2] = "waiting" /\ idx[t2] = 2
        /\ unit[<<t2, 1>>] = "ACQUIRED"

\* C5: schedule_release of an ensemble schedules one release on every
\* limiter, in the order in which they were acquired, and each of these
\* units then has its release pending or done.
C5_EnsembleSchedulesAll ==
    \A t \in Tasks :
        sched_log[t] # <<>> =>
            /\ sched_log[t] = acq_log[t]
            /\ sched_log[t] = target[t]
            /\ \A j \in 1..Len(target[t]) :
                   LET u == <<t, target[t][j]>>
                   IN  /\ unit[u] \in {"RELEASE_SCHEDULED", "RELEASED"}
                       /\ unit[u] = "RELEASE_SCHEDULED" =>
                              rel[u] = "sleeping" /\ u \in BACKGROUND_TASKS

\* An ensemble was acquired, and some time later its release scheduled:
\* both releases are pending.
C5_Witness ==
    \E t \in Tasks :
        /\ target[t] = <<1, 2>> /\ mode[t] = "manual"
        /\ sched_log[t] = <<1, 2>>
        /\ rel[<<t, 1>>] = "sleeping" /\ rel[<<t, 2>>] = "sleeping"

\* The tasks cancelled in acquire after they took capacity of limiter l.
Leaked(l) ==
    {t \in Tasks : pc[t] = "cancelled" /\ \E i \in 1..(idx[t] - 1) : target[t][i] = l}

\* C6 as a state predicate: a task cancelled at position j of an ensemble
\* acquire ended with CancelledError, the units it took before j are still
\* acquired with no release scheduled, and the capacity is missing.
C6_LeakedCapacity ==
    /\ \A t \in Tasks :
           pc[t] = "cancelled" =>
               /\ unit[<<t, target[t][idx[t]]>>] = "CANCELLED"
               /\ \A i \in 1..(idx[t] - 1) :
                      /\ unit[<<t, target[t][i]>>] = "ACQUIRED"
                      /\ rel[<<t, target[t][i]>>] = "none"
    /\ \A l \in Limiters : value[l] <= max_tasks[l] - Cardinality(Leaked(l))

\* C6: an ensemble acquire cancelled while it waits for a later limiter
\* never gives back what it took from the earlier ones: the task stays
\* cancelled, its units stay acquired, no release is scheduled for them.
C6_NoRollbackOnCancel ==
    /\ []C6_LeakedCapacity
    /\ [][\A t \in Tasks : pc[t] = "cancelled" =>
              /\ pc'[t] = "cancelled"
              /\ \A l \in Limiters : unit'[<<t, l>>] = unit[<<t, l>>]]_vars

\* A task was cancelled while it waited for limiter 2; every other task is
\* through and released, and limiter 1 still misses the unit.
C6_Witness ==
    \E t \in Tasks :
        /\ pc[t] = "cancelled" /\ idx[t] = 2
        /\ unit[<<t, 1>>] = "ACQUIRED"
        /\ value[1] = max_tasks[1] - 1
        /\ \E s \in Tasks : s # t /\ unit[<<s, 1>>] = "RELEASED"
        /\ \A s \in Tasks : s # t => \A l \in Limiters :
               unit[<<s, l>>] \in {"NONE", "RELEASED"}

\* C7 as a state predicate: a task that uses the limiter as a scope is
\* never between acquire and schedule_release, is in the body only with its
\* release scheduled, and an exception of the body is not suppressed.
C7_ScopeEntry ==
    \A t \in Tasks :
        mode[t] = "scoped" =>
            /\ pc[t] # "acquired"
            /\ pc[t] \in {"body", "done", "failed"} =>
                   /\ acq_log[t] = target[t]
                   /\ sched_log[t] = target[t]
            /\ raised[t] => pc[t] = "failed"

\* C7: entering the scope is acquire and schedule_release with no
\* suspension between them; leaving the scope changes nothing of the
\* limiter, its release tasks or the registry, and lets the exception pass.
C7_ScopeIsAcquireThenNothing ==
    /\ []C7_ScopeEntry
    /\ [][\A t \in Tasks : pc[t] = "body" /\ pc'[t] # "body" =>
              UNCHANGED lim_vars]_vars

\* A body raised: the task failed, and its release is still pending.
C7_Witness ==
    \E t \in Tasks :
        /\ mode[t] = "scoped" /\ pc[t] = "failed" /\ raised[t]
        /\ unit[<<t, 1>>] = "RELEASE_SCHEDULED"
        /\ <<t, 1>> \in BACKGROUND_TASKS

\* The task of work w has been submitted and is not done.
InFlight(w) == work[w] \in {"created", "running"}

\* C8 as it is stated: the registry holds exactly the tasks in flight.
C8_RegistryIsExactlyInFlight ==
    \A w \in Works : WorkTask(w) \in BACKGROUND_TASKS <=> InFlight(w)

\* C8 as a state predicate: a task in flight is in the registry, a task in
\* the registry is in flight or done with its done callback still to run,
\* the registry is empty when every done callback has run, and the work of
\* a task that returned is in the shared list.
C8_RegistrySafe ==
    /\ \A w \in Works :
           /\ InFlight(w) => WorkTask(w) \in BACKGROUND_TASKS
           /\ WorkTask(w) \in BACKGROUND_TASKS => InFlight(w) \/ work[w] = "done"
           /\ outcome[w] = "ok" => InSeq(w, shared)
    /\ (\A w \in Works : work[w] \in {"none", "removed"}) => BACKGROUND_TASKS = {}

\* C8, amended: the registry holds a task from execute_in_background until
\* the task's done callback has run, which is after the task is done; every
\* submitted task ends and leaves the registry, its work done if it
\* returned; whenever no task is in flight the registry gets empty.
C8_RegistryHoldsUntilCallback ==
    /\ []C8_RegistrySafe
    /\ \A w \in Works :
           work[w] = "created" ~>
               (work[w] = "removed" /\ (outcome[w] = "ok" => InSeq(w, shared)))
    /\ (\A w \in Works : ~InFlight(w)) ~> (BACKGROUND_TASKS = {})

\* One task is done and out of the registry, one is still running and in
\* it, and the submitter has ended without waiting.
C8_Witness ==
    \E w1, w2 \in Works :
        /\ work[w1] = "removed" /\ outcome[w1] = "ok" /\ InSeq(w1, shared)
        /\ work[w2] = "running"
        /\ BACKGROUND_TASKS = {WorkTask(w2)}
        /\ sub_pc = "finished"

\* C9 as a state predicate: nothing is raised in the submitter, and a
\* failed task whose done callback has run is out of the registry.
C9_FailureStaysInTask ==
    /\ sub_pc # "failed"
    /\ \A w \in Works :
           outcome[w] = "failed" /\ work[w] = "removed" =>
               WorkTask(w) \notin BACKGROUND_TASKS

\* C9: the failure of a submitted task reaches no caller, and the failed
\* task leaves the registry as a task that returned does.
C9_FailureNotPropagated ==
    /\ []C9_FailureStaysInTask
    /\ \A w \in Works :
           outcome[w] = "failed" ~> (WorkTask(w) \notin BACKGROUND_TASKS)

\* A task failed and is out of the registry; the submitter went on,
\* submitted another one, which returned, and ended.
C9_Witness ==
    \E w1, w2 \in Works :
        /\ w1 < w2
        /\ outcome[w1] = "failed" /\ work[w1] = "removed"
        /\ outcome[w2] = "ok"
        /\ sub_pc = "finished"
        /\ BACKGROUND_TASKS = {}

\* C10 as it is stated: a wrapper made without a loop argument and called
\* on the thread of a running scheduler ends with an error: it returns no
\* result and does not block.
C10_ReentrantCallFails ==
    \A k \in Wrappers :
        call[k].st # "idle" /\ wr[k].noarg /\ call[k].inloop =>
            call[k].st = "error"

\* Every tuple of the list has the length of the first.
SameLength(itr) == \A e \in 1..Len(itr) : Len(itr[e]) = Len(itr[1])

\* C11 as it is stated: for a non-empty list of tuples of one length k,
\* the k iterables unzip returned, consumed after the call, are the k
\* columns: the i-th yields the i-th component of every tuple, in order.
C11_UnzipYieldsColumns ==
    (fn = "unzip" /\ stage = "consumed" /\ inp # <<>> /\ SameLength(inp)) =>
        /\ out.exc = ""
        /\ Len(out.value) = Len(inp[1])
        /\ \A i \in 1..Len(inp[1]) :
               /\ Len(out.value[i]) = Len(inp)
               /\ \A j \in 1..Len(inp) : out.value[i][j] = inp[j][i]

\* C12 as it is stated: for a non-empty list of tuples whose first has
\* length k, element j of the i-th iterable safe_unzip returned is
\* component i of tuple j, or None when tuple j is too short.
C12_SafeUnzipYieldsPaddedColumns ==
    (fn = "safe_unzip" /\ stage = "consumed" /\ inp # <<>>) =>
        /\ out.exc = ""
        /\ Len(out.value) = Len(inp[1])
        /\ \A i \in 1..Len(inp[1]) :
               /\ Len(out.value[i]) = Len(inp)
               /\ \A j \in 1..Len(inp) :
                      out.value[i][j] = IF Len(inp[j]) >= i THEN inp[j][i] ELSE None

\* C13: each of the four unzip functions, called with an empty input,
\* raises ValueError at the call: the call does not return, so there is
\* nothing to consume.
C13_EmptyInputRaisesAtCall ==
    (fn \in Unzips /\ stage # "start" /\ inp = <<>>) =>
        /\ stage = "raised"
        /\ ret.exc = "ValueError"

\* unzip, which returns generators, was called with the empty list and
\* raised.
C13_Witness ==
    /\ fn = "unzip"
    /\ inp = <<>>
    /\ stage = "raised"
    /\ ret.exc = "ValueError"

\* C14 as it is stated: is_unset is true of UNSET and false of everything
\* else.
C14_IsUnsetTellsTheSentinel ==
    (fn = "is_unset" /\ stage = "returned") =>
        /\ ret.exc = ""
        /\ ret.value = (inp = "UNSET")

\* The positions, as paths of indices, of the items rflatten is to yield:
\* those that are not of class c and lie in containers of class c only.
RECURSIVE YieldPaths(_, _)
YieldPaths(q, c) ==
    UNION {IF q[i].cls = c THEN {<<i>> \o p : p \in YieldPaths(q[i].items, c)}
           ELSE {<<i>>} : i \in 1..Len(q)}

RECURSIVE ItemAt(_, _)
ItemAt(q, p) == IF Len(p) = 1 THEN q[p[1]] ELSE ItemAt(q[p[1]].items, Tail(p))

\* Path p is left of path q in depth-first order.
LeftOf(p, q) ==
    \E k \in 1..Len(p) :
        /\ k <= Len(q)
        /\ p[k] < q[k]
        /\ \A m \in 1..(k - 1) : p[m] = q[m]

\* C15: rflatten yields exactly the items that are not of the unpack class,
\* from every depth of containers of that class, depth-first and left to
\* right; a container of another class is yielded whole.
C15_RFlattenYieldsLeavesInOrder ==
    (fn = "rflatten" /\ stage # "start") =>
        /\ stage # "raised"
        /\ stage = "consumed" =>
               LET P == YieldPaths(inp, unpack_cls)
               IN  /\ out.exc = ""
                   /\ Len(out.value) = Cardinality(P)
                   /\ \A p \in P :
                          out.value[1 + Cardinality({q \in P : LeftOf(q, p)})] =
                              ItemAt(inp, p)
                   /\ \A n \in 1..Len(out.value) : out.value[n].cls # unpack_cls

\* A list in a list was unpacked, and the tuple in it was yielded whole.
C15_Witness ==
    /\ fn = "rflatten"
    /\ unpack_cls = "list"
    /\ stage = "consumed"
    /\ inp = <<Box("list", <<Box("list", <<Leaf(2)>>), Box("tuple", <<>>)>>)>>
    /\ out.value = <<Leaf(2), Box("tuple", <<>>)>>

\* The number of elements flatten yields from the entries before entry o.
RECURSIVE YieldedBefore(_, _)
YieldedBefore(itr, o) ==
    IF o = 1 THEN 0
    ELSE YieldedBefore(itr, o - 1) +
             (IF itr[o - 1].none THEN 0 ELSE Len(itr[o - 1].items))

\* C16: flatten yields the elements of the entries that are not None, in
\* the order of the entries and then of their elements; a None entry makes
\* it neither raise nor yield None.
C16_FlattenSkipsNone ==
    (fn = "flatten" /\ stage # "start") =>
        /\ stage # "raised"
        /\ stage = "consumed" =>
               /\ out.exc = ""
               /\ Len(out.value) = YieldedBefore(inp, Len(inp) + 1)
               /\ \A o \in 1..Len(inp) :
                      ~inp[o].none =>
                          \A n \in 1..Len(inp[o].items) :
                              out.value[YieldedBefore(inp, o) + n] = inp[o].items[n]
               /\ \A n \in 1..Len(out.value) : out.value[n] # None

\* A None entry came before a list, and the list's elements were yielded.
C16_Witness ==
    /\ fn = "flatten"
    /\ stage = "consumed"
    /\ inp = <<Entry(TRUE, <<>>), Entry(FALSE, <<"a", "b">>)>>
    /\ out.value = <<"a", "b">>

\* The tasks admitted by limiter l less than period ticks ago: their
\* await has returned, and the age of their unit is below the period.
AdmittedInWindow(l) ==
    {t \in Tasks : /\ pc[t] = "done"
                   /\ unit[<<t, l>>] \in {"RELEASE_SCHEDULED", "RELEASED"}
                   /\ age[<<t, l>>] < period[l]}

\* C17: when every task awaits the limiter, a task whose await returned has
\* its release scheduled from that moment, and at most max_tasks tasks were
\* admitted less than period ticks ago.
C17_WindowHoldsAtMostMaxTasks ==
    /\ \A t \in Tasks : pc[t] = "done" =>
           unit[<<t, 1>>] \in {"RELEASE_SCHEDULED", "RELEASED"}
    /\ \A l \in Limiters : Cardinality(AdmittedInWindow(l)) <= max_tasks[l]

\* The window is full, with tasks admitted after the release of a task
\* that was admitted before the window.
C17_Witness ==
    /\ Cardinality(AdmittedInWindow(1)) = max_tasks[1]
    /\ \E t \in Tasks : pc[t] = "done" /\ unit[<<t, 1>>] = "RELEASED"
    /\ \E t \in Tasks : unit[<<t, 1>>] = "PENDING" /\ fut[t] = "pending"

\* One step of unit u is one move along the chain.  A task that awaits the
\* limiter runs acquire and schedule_release in one step of the loop, so
\* its unit is ACQUIRED inside that step only; an acquire that does not
\* suspend is PENDING inside its step only; a cancelled acquire ends
\* PENDING with no unit acquired.
UnitMoves(u) ==
    \/ unit'[u] = unit[u]
    \/ unit[u] = "NONE" /\ unit'[u] \in {"PENDING", "ACQUIRED"}
    \/ unit[u] = "PENDING" /\ unit'[u] \in {"ACQUIRED", "CANCELLED"}
    \/ unit[u] = "ACQUIRED" /\ unit'[u] = "RELEASE_SCHEDULED"
    \/ unit[u] = "RELEASE_SCHEDULED" /\ unit'[u] = "RELEASED"
    \/ /\ unit[u] \in {"NONE", "PENDING"}
       /\ unit'[u] = "RELEASE_SCHEDULED"
       /\ mode'[u[1]] # "manual"
       /\ InSeq(u[2], acq_log'[u[1]])

\* A unit leaves ACQUIRED only when its task calls schedule_release, and
\* RELEASE_SCHEDULED only when its _delayed_release task, the period over,
\* releases the semaphore.
UnitLeaves(u) ==
    /\ unit[u] = "ACQUIRED" /\ unit'[u] # "ACQUIRED" =>
           /\ unit'[u] = "RELEASE_SCHEDULED"
           /\ sched_log'[u[1]] # sched_log[u[1]]
    /\ unit[u] = "RELEASE_SCHEDULED" /\ unit'[u] # "RELEASE_SCHEDULED" =>
           /\ unit'[u] = "RELEASED"
           /\ rel[u] = "sleeping" /\ rel'[u] = "done"
           /\ age[u] >= period[u[2]]
           /\ value'[u[2]] + Cardinality({t \in Tasks : fut'[t] = "done" /\ fut[t] = "pending"})
                  = value[u[2]] + 1

\* The capacity of every unit that is acquired or has its release
\* scheduled is taken from the semaphore.
UnitsConsume ==
    \A l \in Limiters :
        value[l] + Cardinality({t \in Tasks :
                       unit[<<t, l>>] \in {"ACQUIRED", "RELEASE_SCHEDULED"}})
            <= max_tasks[l]

\* C18: a unit moves only along PENDING, ACQUIRED, RELEASE_SCHEDULED,
\* RELEASED; while it is ACQUIRED or RELEASE_SCHEDULED its capacity is
\* consumed; only schedule_release takes it out of ACQUIRED, whatever time
\* passes, and only the release after the period out of RELEASE_SCHEDULED.
C18_UnitStateMachine ==
    /\ []UnitsConsume
    /\ [][\A u \in Units : UnitMoves(u) /\ UnitLeaves(u)]_vars

\* A task holds an acquired unit with no release scheduled, while a task
\* that started after it has been through its whole period and released.
C18_Witness ==
    \E t1, t2 \in Tasks :
        /\ t1 < t2
        /\ pc[t1] = "acquired" /\ unit[<<t1, 1>>] = "ACQUIRED"
        /\ unit[<<t2, 1>>] = "RELEASED"
        /\ value[1] = max_tasks[1] - 1

\* C19: with no cancellation, every limiter of capacity at least 1,
\* ensembles that list their limiters in one order and schedule_release
\* after every acquire, every acquire that has started completes.
C19_EveryAcquireCompletes ==
    \A t \in Tasks :
        (pc[t] = "waiting") ~>
            (pc[t] = "done" /\ acq_log[t] = target[t])

\* A task that awaits the ensemble holds limiter 1 and waits for limiter
\* 2, which a task before it has taken.
C19_Witness ==
    \E t1, t2 \in Tasks :
        /\ t1 < t2
        /\ InSeq(2, acq_log[t1])
        /\ unit[<<t1, 2>>] = "RELEASE_SCHEDULED"
        /\ target[t2] = <<1, 2>> /\ pc[t2] = "waiting" /\ idx[t2] = 2
        /\ unit[<<t2, 1>>] = "ACQUIRED"

\* C20 as it is stated: whatever iterable the ensemble was built from,
\* after every completed await each constituent has been acquired once per
\* await for every place it has in the ensemble, and has as many releases
\* scheduled as acquisitions.
C20_EveryAwaitAcquiresAndSchedulesAll ==
    \A l \in Limiters :
        /\ acquired[l] = awaits * Count(l, limiters.items)
        /\ scheduled[l] = acquired[l]

=============================================================================
